---- MODULE Spec2Model ----
(***************************************************************************)
(* The xlocale wrapper of VirtualTerminal: three functions that forward to *)
(* the host locale library (wcwidth_l, newlocale, freelocale) and one      *)
(* platform constant.  The wrappers are modelled from                      *)
(* Sources/xlocale_wrapper/xlocale_wrapper.c; the host library they call   *)
(* is outside the repository and is modelled from the contract the         *)
(* specification gives for it, with every use of a handle that is not live *)
(* (a released locale object) left undefined: a choice                     *)
(* over a fault, an arbitrary result and a corrupted heap.                 *)
(***************************************************************************)
EXTENDS Integers, Sequences, FiniteSets, TLC

VARIABLES
    platform,   \* the build target: decides __APPLE__
    domain,     \* the code points the caller queries in this run
    heap,       \* the host's locale objects, by address
    crashed,    \* the process has faulted
    last,       \* the last wrapper call: what the caller passed and got back
    host,       \* the last host call: what the host was passed and gave back
    obs,        \* the first width answer since the last create or release
    thr         \* the frame of each thread that is inside vt_wcwidth_l

vars == <<platform, domain, heap, crashed, last, host, obs, thr>>

----------------------------------------------------------------------------
(* Bounds of the model.                                                    *)

\* Number of addresses the host allocator can hand out.
MaxHandles == 2

\* Number of threads that query concurrently.
MaxThreads == 2

\* The null pointer: newlocale's failure sentinel and the "no base" argument.
NULL == 0

Handles == 1 .. MaxHandles

Threads == 1 .. MaxThreads

----------------------------------------------------------------------------
(* Integers as C sees them.                                                *)

RECURSIVE Pow2(_)
Pow2(n) == IF n = 0 THEN 1 ELSE 2 * Pow2(n - 1)

\* a << n, for the shifts of the shim (far below the width of int)
Shl(a, n) == a * Pow2(n)

RECURSIVE BitCount(_)
BitCount(n) == IF n = 0 THEN 0 ELSE (n % 2) + BitCount(n \div 2)

----------------------------------------------------------------------------
(* The platform constant.                                                  *)

Platforms == {"apple", "other"}

\* #if __APPLE__
__APPLE__(p) == p = "apple"

\* Faulty variant: the wrong bit.
HeaderMacrosShifted(p) == IF __APPLE__(p) THEN {<<"LC_CTYPE_MASK", Shl(1, 2)>>} ELSE {}

\* xlocale_wrapper.h: the macros the header gives its includer on target p.
HeaderMacros(p) == IF __APPLE__(p) THEN {<<"LC_CTYPE_MASK", Shl(1, 1)>>} ELSE {}

\* xlocale_wrapper.c: the macros the source file defines on target p.
SourceMacros(p) == IF __APPLE__(p) THEN {<<"LC_CTYPE_MASK", Shl(1, 1)>>} ELSE {}

----------------------------------------------------------------------------
(* The host locale library.                                                *)

\* The host's own category masks (LC_COLLATE_MASK, LC_CTYPE_MASK) and a bit
\* no category has.
HostCollateMask == Shl(1, 0)

HostCtypeMask == Shl(1, 1)

UnsupportedMask == Shl(1, 8)

HostAllMask == {HostCollateMask, HostCtypeMask}

\* The masks a caller on target p passes: the shim's constant where the shim
\* defines it, the host's otherwise.
Masks(p) ==
    {m[2] : m \in HeaderMacros(p)} \cup {HostCtypeMask, HostCollateMask, UnsupportedMask}

Resolvable == {"C", "en_US.UTF-8"}

LocaleNames == Resolvable \cup {"invalid-locale-name-zzz"}

\* One code point of every width class: NUL, ESC, 'A', a C1 control,
\* e-acute, combining acute, a CJK ideograph.
CodePoints == {0, 27, 65, 128, 233, 769, 20013}

AsciiRange == 0 .. 127

WidthResults == {-1, 0, 1, 2}

\* What a read through a dangling pointer can come back as.
UBInts == WidthResults \cup {3}

Combining == {769}

Wide == {20013}

\* The host's width table for the character-type data ctype.
wcwidth(wc, ctype) ==
    IF wc = 0 THEN 0
    ELSE IF wc \in 1 .. 31 \/ wc = 127 THEN -1
    ELSE IF wc \in 32 .. 126 THEN 1
    ELSE IF ctype = "C" THEN -1
    ELSE IF wc \in 128 .. 159 THEN -1
    ELSE IF wc \in Combining THEN 0
    ELSE IF wc \in Wide THEN 2
    ELSE 1

Unallocated == [st |-> "unallocated", ctype |-> "none"]

Released == [st |-> "released", ctype |-> "none"]

Live(ctype) == [st |-> "live", ctype |-> ctype]

IsLive(H, l) == l \in DOMAIN H /\ H[l].st = "live"

\* Status of a pointer argument before a call.
StatusOf(H, l) == IF l = NULL THEN "null" ELSE H[l].st

IntRet(v) == [kind |-> "int", val |-> v]

PtrRet(v) == [kind |-> "ptr", val |-> v]

VoidRet == [kind |-> "void", val |-> 0]

NoRet == [kind |-> "fault", val |-> 0]

ErrRet(e) == [kind |-> e, val |-> 0]

Outcome(ret, H) == [ret |-> ret, heap |-> H, fault |-> FALSE]

Fault(H) == [ret |-> NoRet, heap |-> H, fault |-> TRUE]

\* What a write through a dangling pointer can do to the heap H: nothing, or
\* damage to some live object other than l.
Corrupted(H, l) ==
    {H} \cup
    {[H EXCEPT ![g] = d] :
        g \in {x \in DOMAIN H : x # l /\ H[x].st = "live"},
        d \in {Released} \cup {Live(n) : n \in Resolvable}}

\* wcwidth_l(wc, locale): the outcomes of the host call on heap H.
wcwidth_l(H, wc, locale) ==
    IF IsLive(H, locale)
    THEN {Outcome(IntRet(wcwidth(wc, H[locale].ctype)), H)}
    ELSE {Fault(H)} \cup {Outcome(IntRet(v), H) : v \in UBInts}

\* The character-type data of newlocale(mask, name, base).
NewCtype(H, mask, name, base) ==
    IF mask = HostCtypeMask THEN name
    ELSE IF base = NULL THEN "C"
    ELSE H[base].ctype

\* newlocale(mask, name, base): the outcomes of the host call on heap H.
newlocale(H, mask, name, base) ==
    LET free == {a \in DOMAIN H : H[a].st # "live"}
    IN  IF base # NULL /\ ~IsLive(H, base)
        THEN {Fault(H)}
             \cup {Outcome(PtrRet(NULL), G) : G \in Corrupted(H, base)}
             \cup {Outcome(PtrRet(a), [H EXCEPT ![a] = Live(n)]) :
                      a \in free, n \in Resolvable}
        ELSE IF mask \notin HostAllMask \/ name \notin Resolvable \/ free = {}
        THEN {Outcome(PtrRet(NULL), H)}
        ELSE {Outcome(PtrRet(a), [H EXCEPT ![a] = Live(NewCtype(H, mask, name, base))]) :
                 a \in free}

\* freelocale(locale): the outcomes of the host call on heap H.
freelocale(H, locale) ==
    IF IsLive(H, locale)
    THEN {Outcome(VoidRet, [H EXCEPT ![locale] = Released])}
    ELSE {Fault(H)} \cup {Outcome(VoidRet, G) : G \in Corrupted(H, locale)}

----------------------------------------------------------------------------
(* The wrappers.  Each is one call of the host function; the call and its  *)
(* result are logged at the wrapper's boundary (last) and at the host's    *)
(* (host).                                                                 *)

\* (locale_t)p: a pointer cast keeps the address.
locale_t(p) == p

NoCall == [op |-> "none", args |-> <<>>, pre |-> "null", ret |-> VoidRet]

Idle == [pc |-> "idle", wc |-> 0, l |-> NULL, ret |-> VoidRet]

Call(op, args, pre, ret) == [op |-> op, args |-> args, pre |-> pre, ret |-> ret]

\* The shared effect of a wrapper that made host call fn(hargs) with outcome o
\* and handed ret back to a caller who passed args.
Forwarded(op, args, pre, ret, fn, hargs, o) ==
    /\ heap' = o.heap
    /\ crashed' = o.fault
    /\ host' = Call(fn, hargs, pre, o.ret)
    /\ last' = Call(op, args, pre, ret)

\* Faulty variants of vt_wcwidth_l: a handle check, widths clamped at zero,
\* a byte count for a width, a cache keyed by code point alone.
vt_wcwidth_l_checked(wc, locale) ==
    IF IsLive(heap, locale)
    THEN \E o \in wcwidth_l(heap, wc, locale_t(locale)) :
            Forwarded("vt_wcwidth_l", <<wc, locale>>, StatusOf(heap, locale), o.ret,
                      "wcwidth_l", <<wc, locale_t(locale)>>, o)
    ELSE /\ last' = Call("vt_wcwidth_l", <<wc, locale>>, StatusOf(heap, locale),
                         ErrRet("NullHandle"))
         /\ UNCHANGED <<heap, crashed, host>>

vt_wcwidth_l_columns(wc, locale) ==
    \E o \in wcwidth_l(heap, wc, locale_t(locale)) :
        Forwarded("vt_wcwidth_l", <<wc, locale>>, StatusOf(heap, locale),
                  IF o.ret.kind = "int" /\ o.ret.val < 0 THEN IntRet(0) ELSE o.ret,
                  "wcwidth_l", <<wc, locale_t(locale)>>, o)

vt_wcwidth_l_bytes(wc, locale) ==
    \E o \in wcwidth_l(heap, wc, locale_t(locale)) :
        Forwarded("vt_wcwidth_l", <<wc, locale>>, StatusOf(heap, locale),
                  IF o.ret.kind = "int" /\ wc > 2047 THEN IntRet(3) ELSE o.ret,
                  "wcwidth_l", <<wc, locale_t(locale)>>, o)

vt_wcwidth_l_cached(wc, locale) ==
    \E o \in wcwidth_l(heap, wc, locale_t(locale)) :
        Forwarded("vt_wcwidth_l", <<wc, locale>>, StatusOf(heap, locale),
                  IF o.ret.kind = "int" /\ last.op = "vt_wcwidth_l"
                     /\ last.ret.kind = "int" /\ last.args[1] = wc
                  THEN last.ret ELSE o.ret,
                  "wcwidth_l", <<wc, locale_t(locale)>>, o)

\* int vt_wcwidth_l(wchar_t wc, void *locale)
vt_wcwidth_l(wc, locale) ==
    \E o \in wcwidth_l(heap, wc, locale_t(locale)) :
        Forwarded("vt_wcwidth_l", <<wc, locale>>, StatusOf(heap, locale), o.ret,
                  "wcwidth_l", <<wc, locale_t(locale)>>, o)

\* Faulty variants of vt_newlocale: the base handed back on failure, the base
\* released on success, the base dropped.
vt_newlocale_base_on_failure(mask, name, base) ==
    \E o \in newlocale(heap, mask, name, locale_t(base)) :
        Forwarded("vt_newlocale", <<mask, name, base>>, StatusOf(heap, base),
                  IF o.ret = PtrRet(NULL) THEN PtrRet(base) ELSE o.ret,
                  "newlocale", <<mask, name, locale_t(base)>>, o)

vt_newlocale_consume(mask, name, base) ==
    \E o \in newlocale(heap, mask, name, locale_t(base)) :
        \E f \in (IF o.fault \/ o.ret = PtrRet(NULL) \/ base = NULL
                  THEN {o} ELSE freelocale(o.heap, locale_t(base))) :
            Forwarded("vt_newlocale", <<mask, name, base>>, StatusOf(heap, base),
                      IF f.fault THEN NoRet ELSE o.ret,
                      "newlocale", <<mask, name, locale_t(base)>>,
                      [o EXCEPT !.heap = f.heap, !.fault = f.fault])

vt_newlocale_no_base(mask, name, base) ==
    \E o \in newlocale(heap, mask, name, NULL) :
        Forwarded("vt_newlocale", <<mask, name, base>>, StatusOf(heap, base), o.ret,
                  "newlocale", <<mask, name, NULL>>, o)

\* void *vt_newlocale(int mask, const char *locale, void *base)
vt_newlocale(mask, name, base) ==
    \E o \in newlocale(heap, mask, name, locale_t(base)) :
        Forwarded("vt_newlocale", <<mask, name, base>>, StatusOf(heap, base), o.ret,
                  "newlocale", <<mask, name, locale_t(base)>>, o)

\* Faulty variant of vt_freelocale: a handle check.
vt_freelocale_checked(locale) ==
    IF IsLive(heap, locale)
    THEN \E o \in freelocale(heap, locale_t(locale)) :
            Forwarded("vt_freelocale", <<locale>>, StatusOf(heap, locale), o.ret,
                      "freelocale", <<locale_t(locale)>>, o)
    ELSE /\ last' = Call("vt_freelocale", <<locale>>, StatusOf(heap, locale),
                         ErrRet("DoubleRelease"))
         /\ UNCHANGED <<heap, crashed, host>>

\* void vt_freelocale(void *locale)
vt_freelocale(locale) ==
    \E o \in freelocale(heap, locale_t(locale)) :
        Forwarded("vt_freelocale", <<locale>>, StatusOf(heap, locale), o.ret,
                  "freelocale", <<locale_t(locale)>>, o)

----------------------------------------------------------------------------
(* One caller using the three wrappers in any order.                       *)

NoObs == [l |-> NULL, wc |-> 0, val |-> 0]

\* The first answer a live handle gave since the heap last changed hands.
Observe(wc, l) ==
    obs' = IF obs = NoObs /\ IsLive(heap, l) /\ last'.ret.kind = "int"
           THEN [l |-> l, wc |-> wc, val |-> last'.ret.val]
           ELSE obs

\* The handles a caller can hold: every address a create has returned, live
\* or since released.
Held == {h \in Handles : heap[h].st # "unallocated"}

Query ==
    /\ ~crashed
    /\ \E wc \in domain, l \in Held :
          /\ vt_wcwidth_l(wc, l)
          /\ Observe(wc, l)
    /\ UNCHANGED <<platform, domain, thr>>

Create ==
    /\ ~crashed
    /\ \E mask \in Masks(platform), name \in LocaleNames, base \in {NULL} \cup Held :
          vt_newlocale(mask, name, base)
    /\ obs' = NoObs
    /\ UNCHANGED <<platform, domain, thr>>

Release ==
    /\ ~crashed
    /\ \E l \in Held : vt_freelocale(l)
    /\ obs' = NoObs
    /\ UNCHANGED <<platform, domain, thr>>

Init ==
    /\ platform \in Platforms
    /\ domain = CodePoints
    /\ heap = [a \in Handles |-> Unallocated]
    /\ crashed = FALSE
    /\ last = NoCall
    /\ host = NoCall
    /\ obs = NoObs
    /\ thr = [t \in Threads |-> Idle]

Next == Query \/ Create \/ Release

Spec == Init /\ [][Next]_vars

----------------------------------------------------------------------------
(* The width query over every ASCII code point, on handles that are live   *)
(* from the start.                                                         *)

AsciiQuery ==
    /\ ~crashed
    /\ \E wc \in domain, l \in {h \in Handles : IsLive(heap, h)} :
          vt_wcwidth_l(wc, l)
    /\ UNCHANGED <<platform, domain, obs, thr>>

InitAscii ==
    /\ platform \in Platforms
    /\ domain = AsciiRange
    /\ heap \in [Handles -> {Unallocated} \cup {Live(n) : n \in Resolvable}]
    /\ crashed = FALSE
    /\ last = NoCall
    /\ host = NoCall
    /\ obs = NoObs
    /\ thr = [t \in Threads |-> Idle]

NextAscii == AsciiQuery

SpecAscii == InitAscii /\ [][NextAscii]_vars

----------------------------------------------------------------------------
(* Several threads inside vt_wcwidth_l at once, on a handle that is live   *)
(* from the start; nothing creates or releases.  A call is three steps:    *)
(* the arguments arrive in the thread's frame, the host is called, the     *)
(* result is handed back.                                                  *)

\* Code points of width 1, 0 and 2.
MTPoints == {65, 769, 20013}

\* Faulty variant: the arguments kept in one static buffer, which the last
\* thread to enter has overwritten.
StaticArgs(t) == <<last.args[1], last.args[2]>>

\* The arguments of thread t's call: parameters, passed by value.
FrameArgs(t) == <<thr[t].wc, thr[t].l>>

Enter(t) ==
    /\ thr[t].pc \in {"idle", "returned"}
    /\ \E wc \in domain, l \in {h \in Handles : IsLive(heap, h)} :
          /\ thr' = [thr EXCEPT ![t] = [pc |-> "entered", wc |-> wc, l |-> l, ret |-> VoidRet]]
          /\ last' = Call("vt_wcwidth_l", <<wc, l>>, StatusOf(heap, l), VoidRet)
    /\ UNCHANGED <<platform, domain, heap, crashed, host, obs>>

HostCall(t) ==
    /\ thr[t].pc = "entered"
    /\ LET a == FrameArgs(t)
       IN  \E o \in wcwidth_l(heap, a[1], locale_t(a[2])) :
              /\ thr' = [thr EXCEPT ![t].pc = "computed", ![t].ret = o.ret]
              /\ heap' = o.heap
              /\ crashed' = o.fault
              /\ host' = Call("wcwidth_l", <<a[1], locale_t(a[2])>>, StatusOf(heap, a[2]), o.ret)
    /\ UNCHANGED <<platform, domain, last, obs>>

Return(t) ==
    /\ thr[t].pc = "computed"
    /\ thr' = [thr EXCEPT ![t].pc = "returned"]
    /\ UNCHANGED <<platform, domain, heap, crashed, last, host, obs>>

Step(t) == Enter(t) \/ HostCall(t) \/ Return(t)

InitMT ==
    /\ platform \in Platforms
    /\ domain = MTPoints
    /\ \E n \in Resolvable :
          heap = [a \in Handles |-> IF a = 1 THEN Live(n) ELSE Unallocated]
    /\ crashed = FALSE
    /\ last = NoCall
    /\ host = NoCall
    /\ obs = NoObs
    /\ thr = [t \in Threads |-> Idle]

NextMT ==
    \/ \E t \in Threads : ~crashed /\ Enter(t)
    \/ \E t \in Threads : ~crashed /\ HostCall(t)
    \/ \E t \in Threads : ~crashed /\ Return(t)

SpecMT == InitMT /\ [][NextMT]_vars

----------------------------------------------------------------------------
(* Properties.                                                             *)

IsQuery(c) == c.op = "vt_wcwidth_l"

IsCreate(c) == c.op = "vt_newlocale"

IsRelease(c) == c.op = "vt_freelocale"

Succeeded(c) == c.ret.kind = "ptr" /\ c.ret.val # NULL

\* The host function each wrapper stands for.
HostFn(op) ==
    CASE op = "vt_wcwidth_l" -> "wcwidth_l"
      [] op = "vt_newlocale" -> "newlocale"
      [] op = "vt_freelocale" -> "freelocale"
      [] OTHER -> "none"

\* The outcomes of calling the host function of op directly on heap H.
HostOutcomes(H, op, args) ==
    CASE op = "vt_wcwidth_l" -> wcwidth_l(H, args[1], args[2])
      [] op = "vt_newlocale" -> newlocale(H, args[1], args[2], args[3])
      [] op = "vt_freelocale" -> freelocale(H, args[1])
      [] OTHER -> {}

\* The answers handle l gives on heap H, code point by code point.
Answers(H, l) == [c \in CodePoints |-> {o.ret : o \in wcwidth_l(H, c, l)}]

\* C1, as claimed: a width query on a handle that vt_freelocale has already
\* released fails with the NullHandle error.
C1_Original ==
    IsQuery(last) /\ last.pre = "released" => last.ret.kind = "NullHandle"

\* C1, amended: vt_wcwidth_l does not check its handle. A query on a handle
\* that is not live (already released) is passed to wcwidth_l with the same
\* arguments, and the caller gets the host's undefined outcome: a fault or an
\* int. No NullHandle error is reported.
C1_UncheckedQuery ==
    IsQuery(last) /\ last.pre = "released" =>
        /\ last.ret.kind \in {"int", "fault"}
        /\ host = Call("wcwidth_l", last.args, last.pre, last.ret)

\* A released handle was queried and a width came back.
C1_Witness ==
    /\ IsQuery(last)
    /\ last.pre = "released"
    /\ last.ret.kind = "int"
    /\ last.ret.val \in WidthResults
    /\ ~crashed

\* C2, as claimed: a second release of a handle is reported as DoubleRelease
\* and leaves every other live handle unchanged.
C2_Original ==
    [][IsRelease(last') /\ last'.pre = "released" =>
          /\ last'.ret.kind = "DoubleRelease"
          /\ \A g \in Handles \ {last'.args[1]} : heap'[g] = heap[g]]_vars

\* C2, amended: vt_freelocale returns nothing and checks nothing. Every
\* release is passed to freelocale with the same handle and reports no error;
\* the release of a live handle makes that handle released and leaves every
\* other handle unchanged; a release of a handle that is not live is undefined.
C2_UncheckedRelease ==
    [][IsRelease(last') =>
          /\ last'.ret.kind \in {"void", "fault"}
          /\ host' = Call("freelocale", last'.args, last'.pre, last'.ret)
          /\ last'.pre = "live" =>
                /\ heap' = [heap EXCEPT ![last'.args[1]] = Released]
                /\ ~crashed']_vars

\* A handle was released a second time and the call came back without an error.
C2_Witness ==
    /\ IsRelease(last)
    /\ last.pre = "released"
    /\ last.ret = VoidRet
    /\ ~crashed

NoNewLive == \A h \in Handles : IsLive(heap', h) => IsLive(heap, h)

LiveKept == \A h \in Handles : IsLive(heap, h) => heap'[h] = heap[h]

\* C3, as claimed: a create whose locale name the host cannot resolve returns
\* the null sentinel, creates no live handle and leaves the live handles
\* unchanged, whatever the base.
C3_Original ==
    [][IsCreate(last') /\ last'.args[2] \notin Resolvable =>
          /\ last'.ret = PtrRet(NULL)
          /\ ~crashed'
          /\ NoNewLive
          /\ LiveKept]_vars

\* C3, amended: the same, for a create whose base is null or a live handle.
C3_InvalidNameFails ==
    [][/\ IsCreate(last')
       /\ last'.args[2] \notin Resolvable
       /\ last'.pre \in {"null", "live"}
       =>
       /\ last'.ret = PtrRet(NULL)
       /\ ~crashed'
       /\ NoNewLive
       /\ LiveKept]_vars

\* A create on a live base with an unresolvable name returned null, and the
\* base is still live.
C3_Witness ==
    /\ IsCreate(last)
    /\ last.args[2] = "invalid-locale-name-zzz"
    /\ last.pre = "live"
    /\ last.ret = PtrRet(NULL)
    /\ IsLive(heap, last.args[3])

\* The reference classification of the ASCII code points.
AsciiWidth(c) == IF c = 0 THEN 0 ELSE IF c < 32 \/ c = 127 THEN -1 ELSE 1

\* C4: on a live handle, the width of an ASCII code point is 0 for NUL, -1
\* for 0x01..0x1F and 0x7F, and 1 for 0x20..0x7E.
C4_AsciiWidths ==
    IsQuery(last) /\ last.pre = "live" /\ last.args[1] \in AsciiRange =>
        last.ret = IntRet(AsciiWidth(last.args[1]))

\* DEL was queried on a live UTF-8 handle.
C4_Witness ==
    /\ IsQuery(last)
    /\ last.pre = "live"
    /\ last.args[1] = 127
    /\ heap[last.args[2]] = Live("en_US.UTF-8")
    /\ last.ret = IntRet(-1)

\* C5: on a live handle, the width of any code point is one of -1, 0, 1, 2.
C5_WidthRange ==
    IsQuery(last) /\ last.pre = "live" =>
        last.ret.kind = "int" /\ last.ret.val \in {-1, 0, 1, 2}

\* A wide code point was queried on a live handle.
C5_Witness ==
    /\ IsQuery(last)
    /\ last.pre = "live"
    /\ last.args[1] = 20013
    /\ last.ret = IntRet(2)

\* C6: a width query on a live handle changes no handle, and it returns what
\* the same query returned before, whatever was queried in between.
C6_PureQuery ==
    [][IsQuery(last') /\ last'.pre = "live" =>
          /\ heap' = heap
          /\ ~crashed'
          /\ (obs # NoObs /\ obs.l = last'.args[2] /\ obs.wc = last'.args[1]) =>
                last'.ret = IntRet(obs.val)]_vars

\* A query was repeated after a query on another handle and another code point.
C6_Witness ==
    /\ IsQuery(last)
    /\ last.pre = "live"
    /\ obs # NoObs
    /\ <<obs.wc, obs.l>> # <<last.args[1], last.args[2]>>
    /\ \E l \in Handles, wc \in CodePoints :
          /\ IsLive(heap, l)
          /\ l # obs.l
          /\ wcwidth(obs.wc, heap[l].ctype) # obs.val

\* C7: a successful create on a live base leaves the base live and as it
\* was, answering every query as before, at an address of its own: releasing
\* either handle leaves the other live.
C7_BaseKept ==
    [][IsCreate(last') /\ last'.pre = "live" /\ Succeeded(last') =>
          LET base == last'.args[3]
              new == last'.ret.val
          IN  /\ new # base
              /\ heap'[base] = heap[base]
              /\ IsLive(heap', base)
              /\ Answers(heap', base) = Answers(heap, base)
              /\ \A o \in freelocale(heap', new) : IsLive(o.heap, base)
              /\ \A o \in freelocale(heap', base) : IsLive(o.heap, new)]_vars

\* A create inherited the character type of a live UTF-8 base, and both
\* handles are live.
C7_Witness ==
    /\ IsCreate(last)
    /\ last.pre = "live"
    /\ Succeeded(last)
    /\ last.args[1] = HostCollateMask
    /\ heap[last.args[3]] = Live("en_US.UTF-8")
    /\ heap[last.ret.val] = Live("en_US.UTF-8")

\* C8: with several threads inside vt_wcwidth_l on live handles, every thread
\* gets the answer the query gives when run alone, nothing faults, and a
\* thread inside the call can always take its next step.
C8_ParallelQueries ==
    /\ ~crashed
    /\ \A t \in Threads :
          /\ thr[t].pc \in {"computed", "returned"} =>
                thr[t].ret \in {o.ret : o \in wcwidth_l(heap, thr[t].wc, thr[t].l)}
          /\ thr[t].pc \in {"entered", "computed"} => ENABLED Step(t)

\* Two threads are inside the call with different code points, one already
\* has its answer, the other entered after it.
C8_Witness ==
    \E t, u \in Threads :
        /\ thr[t].pc = "computed"
        /\ thr[u].pc = "entered"
        /\ thr[t].wc # thr[u].wc
        /\ thr[t].ret = IntRet(2)
        /\ last.args = <<thr[u].wc, thr[u].l>>

\* C9: the shim defines LC_CTYPE_MASK on the __APPLE__ target and on no
\* other; its value is (1 << 1) = 2, a single bit; header and source agree.
C9_CtypeMask ==
    /\ HeaderMacros(platform) = SourceMacros(platform)
    /\ (HeaderMacros(platform) # {}) <=> (platform = "apple")
    /\ \A m \in HeaderMacros(platform) \cup SourceMacros(platform) :
          /\ m[1] = "LC_CTYPE_MASK"
          /\ m[2] = 2
          /\ BitCount(m[2]) = 1

\* On the Apple target a create with the shim's constant took the character
\* type of the named locale.
C9_Witness ==
    /\ platform = "apple"
    /\ IsCreate(last)
    /\ <<"LC_CTYPE_MASK", last.args[1]>> \in HeaderMacros(platform)
    /\ last.args[2] = "en_US.UTF-8"
    /\ Succeeded(last)
    /\ heap[last.ret.val] = Live("en_US.UTF-8")

\* C10: every wrapper call is one call of its host function with the same
\* arguments in the same order; the caller gets the host's result; and the
\* call changes what the host call changes and nothing else.
C10_Forwarding ==
    [][last'.op # "none" =>
          /\ host' = Call(HostFn(last'.op), last'.args, last'.pre, last'.ret)
          /\ \E o \in HostOutcomes(heap, last'.op, last'.args) :
                /\ o.ret = last'.ret
                /\ o.heap = heap'
                /\ o.fault = crashed'
          /\ UNCHANGED <<platform, domain, thr>>]_vars

\* A create with a live base was forwarded and succeeded.
C10_Witness ==
    /\ IsCreate(last)
    /\ last.pre = "live"
    /\ host.args = last.args
    /\ Succeeded(last)
    /\ host.ret = last.ret

====
